---- MODULE Spec2Model ----
(***************************************************************************)
(* A model of the WhatsApp <-> Voiceflow relay: the POST /webhook handler, *)
(* processMessage, the dialogue exchange and the trace dispatcher, in the  *)
(* two variants the repository holds:                                      *)
(*   "index"  src/index.js           (single backend call, chunked text)   *)
(*   "part"   src/unnamed/part_000   (retry loop, universal sender)        *)
(* A JavaScript string is modelled as the sequence of its UTF-16 code      *)
(* units: one-character strings for ASCII, "U+XXXX" for the others, so     *)
(* that Len is the string's .length.  A missing or undefined string field  *)
(* is the empty sequence wherever the code only tests its truthiness.      *)
(***************************************************************************)
EXTENDS Integers, Sequences, FiniteSets

VARIABLES
  variant,   \* which source file is running
  delivery,  \* req.body.entry of the POST /webhook request
  reply,     \* per message: the trace array the backend holds for this turn
  ack,       \* HTTP status sent by res.sendStatus, 0 before it is sent
  pc,        \* per message: position of its processMessage task
  utter,     \* per message: userInput handed to the dialogue exchange
  attempt,   \* per message: attempt counter of handleVoiceflowConversation
  traces,    \* per message: the array being dispatched
  idx,       \* per message: loop index i of the dispatcher (1-based), and call number
  plan,      \* per message: what the running handler still has to do
  wire,      \* per message: every request posted to the WhatsApp API, in order
  calls,     \* per message: every request posted to the dialogue backend
  delays     \* per message: every timer the task has waited for

vars == <<variant, delivery, reply, ack, pc, utter, attempt, traces, idx, plan,
          wire, calls, delays>>

\* ------------------------------------------------------------------ bounds

MaxTraces == 2

MaxButtons == 11

MaxCards == 11

LongLen == 9000

\* --------------------------------------------------------- JavaScript strings

Whitespace == {" ", "\n", "\t"}

Min(a, b) == IF a < b THEN a ELSE b

\* !s.trim()  /  s.trim().length === 0
IsBlank(s) == \A k \in 1..Len(s) : s[k] \in Whitespace

\* s.substring(0, n)
Substring(s, n) == SubSeq(s, 1, Min(n, Len(s)))

\* s.trim()
RECURSIVE TrimStart(_)
TrimStart(s) == IF s # <<>> /\ Head(s) \in Whitespace THEN TrimStart(Tail(s)) ELSE s

RECURSIVE TrimEnd(_)
TrimEnd(s) ==
  IF s # <<>> /\ s[Len(s)] \in Whitespace THEN TrimEnd(SubSeq(s, 1, Len(s) - 1)) ELSE s

Trim(s) == TrimEnd(TrimStart(s))

\* a || b on strings: the empty string (and undefined) is falsy
OrElse(a, b) == IF Len(a) > 0 THEN a ELSE b

\* `${n}` for the small non-negative integers the handlers format
Digit(d) == <<"0", "1", "2", "3", "4", "5", "6", "7", "8", "9">>[d + 1]

RECURSIVE NumText(_)
NumText(n) == IF n < 10 THEN <<Digit(n)>> ELSE NumText(n \div 10) \o <<Digit(n % 10)>>

\* ------------------------------------------------------------ fixed texts

ImagePlaceholder ==
  <<
    "U", "s", "e", "r", " ", "s", "e", "n", "t", " ", "a", "n", " ", "i", "m", "a", "g", "e"
  >>

DocumentPlaceholder ==
  <<
    "U", "s", "e", "r", " ", "s", "e", "n", "t", " ", "a", " ", "d", "o", "c", "u", "m", "e",
    "n", "t"
  >>

VoicePlaceholder ==
  <<
    "U", "s", "e", "r", " ", "s", "e", "n", "t", " ", "a", " ", "v", "o", "i", "c", "e", " ",
    "m", "e", "s", "s", "a", "g", "e"
  >>

AudioPlaceholder ==
  <<
    "U", "s", "e", "r", " ", "s", "e", "n", "t", " ", "a", "n", " ", "a", "u", "d", "i", "o",
    " ", "m", "e", "s", "s", "a", "g", "e"
  >>

TechnicalDifficultiesText ==
  <<
    "I", "'", "m", " ", "s", "o", "r", "r", "y", ",", " ", "I", "'", "m", " ", "e", "x", "p",
    "e", "r", "i", "e", "n", "c", "i", "n", "g", " ", "t", "e", "c", "h", "n", "i", "c", "a",
    "l", " ", "d", "i", "f", "f", "i", "c", "u", "l", "t", "i", "e", "s", " ", "r", "i", "g",
    "h", "t", " ", "n", "o", "w", ".", " ", "P", "l", "e", "a", "s", "e", " ", "t", "r", "y",
    " ", "a", "g", "a", "i", "n", " ", "i", "n", " ", "a", " ", "f", "e", "w", " ", "m", "o",
    "m", "e", "n", "t", "s", ".", " ", "U+D83E", "U+DD16", "U+D83D", "U+DCAD"
  >>

TechnicalDifficultiesMessage ==
  <<
    "I", "'", "m", " ", "e", "x", "p", "e", "r", "i", "e", "n", "c", "i", "n", "g", " ", "t",
    "e", "c", "h", "n", "i", "c", "a", "l", " ", "d", "i", "f", "f", "i", "c", "u", "l", "t",
    "i", "e", "s", ".", " ", "P", "l", "e", "a", "s", "e", " ", "t", "r", "y", " ", "a", "g",
    "a", "i", "n", " ", "i", "n", " ", "a", " ", "m", "o", "m", "e", "n", "t", ".", " ",
    "U+D83E", "U+DD16"
  >>

NoTracesText ==
  <<
    "I", " ", "u", "n", "d", "e", "r", "s", "t", "a", "n", "d", " ", "y", "o", "u", "r", " ",
    "m", "e", "s", "s", "a", "g", "e", ",", " ", "b", "u", "t", " ", "I", " ", "d", "o", "n",
    "'", "t", " ", "h", "a", "v", "e", " ", "a", " ", "r", "e", "s", "p", "o", "n", "s", "e",
    " ", "r", "e", "a", "d", "y", " ", "r", "i", "g", "h", "t", " ", "n", "o", "w", ".", " ",
    "C", "o", "u", "l", "d", " ", "y", "o", "u", " ", "p", "l", "e", "a", "s", "e", " ", "t",
    "r", "y", " ", "r", "e", "p", "h", "r", "a", "s", "i", "n", "g", "?"
  >>

FallbackGreeting ==
  <<
    "H", "i", "!", " ", "W", "e", "l", "c", "o", "m", "e", " ", "t", "o", " ", "L", "a", "k",
    "s", "h", " ", "E", "s", "t", "a", "t", "e", " ", "R", "e", "a", "l", " ", "E", "s", "t",
    "a", "t", "e", " ", "A", "s", "s", "i", "s", "t", "a", "n", "t", "!", " ", "U+D83C",
    "U+DFE0", "\n", "\n", "I", "'", "m", " ", "h", "e", "r", "e", " ", "t", "o", " ", "h", "e",
    "l", "p", " ", "y", "o", "u", " ", "w", "i", "t", "h", " ", "a", "l", "l", " ", "y", "o",
    "u", "r", " ", "p", "r", "o", "p", "e", "r", "t", "y", " ", "n", "e", "e", "d", "s", ".",
    " ", "W", "h", "a", "t", " ", "w", "o", "u", "l", "d", " ", "y", "o", "u", " ", "l", "i",
    "k", "e", " ", "t", "o", " ", "d", "o", " ", "t", "o", "d", "a", "y", "?", "\n", "\n",
    "U+D83D", "U+DD39", " ", "P", "r", "o", "p", "e", "r", "t", "y", " ", "S", "e", "r", "v",
    "i", "c", "e", "s", "\n", "U+D83D", "U+DD39", " ", "B", "u", "y", "/", "S", "e", "l", "l",
    " ", "P", "r", "o", "p", "e", "r", "t", "i", "e", "s", "\n", "U+D83D", "U+DD39", " ", "I",
    "n", "v", "e", "s", "t", "m", "e", "n", "t", " ", "A", "d", "v", "i", "s", "o", "r", "y",
    "\n", "U+D83D", "U+DD39", " ", "P", "r", "o", "p", "e", "r", "t", "y", " ", "M", "a", "n",
    "a", "g", "e", "m", "e", "n", "t", "\n", "\n", "J", "u", "s", "t", " ", "l", "e", "t", " ",
    "m", "e", " ", "k", "n", "o", "w", " ", "h", "o", "w", " ", "I", " ", "c", "a", "n", " ",
    "a", "s", "s", "i", "s", "t", " ", "y", "o", "u", "!"
  >>

DefaultChoicePrompt ==
  <<
    "P", "l", "e", "a", "s", "e", " ", "c", "h", "o", "o", "s", "e", " ", "a", "n", " ", "o",
    "p", "t", "i", "o", "n", ":"
  >>

ChooseLabel ==
  <<
    "C", "h", "o", "o", "s", "e"
  >>

OptionPrefix ==
  <<
    "O", "p", "t", "i", "o", "n", " "
  >>

ImageFallbackPrefix ==
  <<
    "U+D83D", "U+DDBC", "U+FE0F", " "
  >>

\* ------------------------------------------------------- inbound messages

Variants == {"index", "part"}

Hi == <<"H", "i">>

Yes == <<"Y", "e", "s">>

Villa == <<"V", "i", "l", "l", "a">>

Look == <<"L", "o", "o", "k">>

TextMessages == {[type |-> "text", body |-> b] : b \in {Hi, <<" ">>, <<" ", "\n">>, <<>>}}

InteractiveMessages ==
  { [type |-> "interactive", itype |-> "button_reply", id |-> <<"b", "0">>, title |-> Yes],
    [type |-> "interactive", itype |-> "list_reply", id |-> <<"r", "1">>, title |-> Villa],
    [type |-> "interactive", itype |-> "nfm_reply", id |-> <<>>, title |-> <<>>] }

MediaMessages ==
  {[type |-> k, caption |-> c] : k \in {"image", "document"}, c \in {<<>>, <<" ">>, Look}}

OtherMessages == {[type |-> k] : k \in {"audio", "sticker", "location"}}

Messages == TextMessages \cup InteractiveMessages \cup MediaMessages \cup OtherMessages

SupportedTypes == {"text", "interactive", "image", "audio", "document"}

\* the switch's default arm: log and return
Unsupported_NoReturn(m) == FALSE

Unsupported(m) == m.type \notin SupportedTypes

InteractiveTitle_Id(m) ==
  IF m.itype \in {"button_reply", "list_reply"} THEN m.id ELSE <<>>

InteractiveTitle(m) ==
  IF m.itype \in {"button_reply", "list_reply"} THEN m.title ELSE <<>>

\* src/index.js: the switch of processMessage (userInput starts as '')
UserInputIndex(m) ==
  CASE m.type = "text" -> OrElse(m.body, <<>>)
    [] m.type = "interactive" -> InteractiveTitle(m)
    [] m.type = "image" -> OrElse(m.caption, ImagePlaceholder)
    [] m.type = "audio" -> VoicePlaceholder
    [] m.type = "document" -> OrElse(m.caption, DocumentPlaceholder)
    [] OTHER -> <<>>

\* src/unnamed/part_000: the switch of processMessage
UserInputPart(m) ==
  CASE m.type = "text" -> m.body
    [] m.type = "interactive" -> InteractiveTitle(m)
    [] m.type = "image" -> OrElse(m.caption, ImagePlaceholder)
    [] m.type = "document" -> OrElse(m.caption, DocumentPlaceholder)
    [] m.type = "audio" -> AudioPlaceholder
    [] OTHER -> <<>>

\* src/index.js: if (!userInput.trim()) return;  part_000 has no such test
EmptySkip(v, s) == v = "index" /\ IsBlank(s)

UserInput(v, m) == IF v = "index" THEN UserInputIndex(m) ELSE UserInputPart(m)

\* ------------------------------------------------------- program constants

maxRetries == 3

backoffBase == 2000

delayBetweenMessages == 1000

traceDelay == 300

chunkDelay == 500

maxLength == 4000

captionLimit == 1024

buttonCap == 3

listRowCap == 10

buttonTitleCap == 20

rowTitleCap == 24

rowDescriptionCap == 72

carouselTitleDelay == 500

\* ------------------------------------------------- outbound wire messages

TextMsg(s) == [type |-> "text", body |-> s]

\* the "typing indicator" of src/index.js is a reaction message
ReactionMsg == [type |-> "reaction"]

ImageMsg(link, caption) == [type |-> "image", link |-> link, caption |-> caption]

ButtonsMsg(text, buttons) ==
  [type |-> "interactive", itype |-> "button", body |-> text, buttons |-> buttons]

ListMsg(header, text, label, sections) ==
  [type |-> "interactive", itype |-> "list", header |-> header, body |-> text,
   button |-> label, sections |-> sections]

\* ----------------------------------------------------- steps of a handler
\* A handler is run as the sequence of its awaited steps.  A send either
\* throws when the request fails (throws = TRUE) or is caught by the sender,
\* which then drops the next skip steps, runs its fallback steps and returns
\* normally.

Send(m) == [op |-> "send", msg |-> m, throws |-> TRUE, fallback |-> <<>>, skip |-> 0]

SendCaught(m, fb) ==
  [op |-> "send", msg |-> m, throws |-> FALSE, fallback |-> fb, skip |-> 0]

\* try { ops } catch { fb }, for ops whose sends all throw: a failed send
\* abandons the ops after it (skip) and runs fb
Catch(ops, fb) ==
  [k \in 1..Len(ops) |->
     IF ops[k].op = "send"
     THEN [ops[k] EXCEPT !.throws = FALSE, !.fallback = fb, !.skip = Len(ops) - k]
     ELSE ops[k]]

Delay(ms) == [op |-> "delay", ms |-> ms]

\* the await in front of every send and every handler call: the caller
\* resumes only when the request it posted has been answered
AwaitSend_Detached(w) == TRUE

AwaitSend(w) == \A k \in 1..Len(w) : w[k].status # "pending"

\* ------------------------------------------- src/index.js sendWhatsAppText

LineTerminators == {"\n", "\r", "U+2028", "U+2029"}

\* text.match(/.{1,maxLength}/g): "." matches no line terminator, so the
\* matches are the maximal terminator-free runs, cut every maxLength units
RECURSIVE ChunksFrom(_, _, _)
ChunksFrom(text, breaks, p) ==
  IF p > Len(text) THEN <<>>
  ELSE IF p \in breaks THEN ChunksFrom(text, breaks, p + 1)
  ELSE LET later == {b \in breaks : b > p}
           stop == IF later = {} THEN Len(text)
                   ELSE (CHOOSE b \in later : \A c \in later : b <= c) - 1
           e == Min(p + maxLength - 1, stop)
       IN  <<SubSeq(text, p, e)>> \o ChunksFrom(text, breaks, e + 1)

Chunks(text) ==
  ChunksFrom(text, {k \in 1..Len(text) : text[k] \in LineTerminators}, 1)

\* one chunk: the recursive call, then delay(500)
ChunkOps(chunk) ==
  (IF IsBlank(chunk) THEN <<>> ELSE <<Send(TextMsg(chunk))>>) \o <<Delay(chunkDelay)>>

RECURSIVE FlatMapChunks(_)
FlatMapChunks(cs) ==
  IF cs = <<>> THEN <<>> ELSE ChunkOps(Head(cs)) \o FlatMapChunks(Tail(cs))

sendWhatsAppText(text) ==
  IF Len(text) = 0 \/ IsBlank(text) THEN <<>>
  ELSE IF Len(text) > maxLength THEN FlatMapChunks(Chunks(text))
  ELSE <<Send(TextMsg(text))>>

\* ------------------------------------ src/unnamed/part_000 sendWhatsAppMessage

sendWhatsAppMessage(messageData) == <<Send(messageData)>>

\* ------------------------------------------ src/index.js sendWhatsAppImage

sendWhatsAppImage(imageUrl, caption) ==
  IF Len(imageUrl) = 0 THEN <<>>
  ELSE <<SendCaught(
           ImageMsg(imageUrl,
                    IF Len(caption) > 0 /\ ~IsBlank(caption)
                    THEN Substring(caption, captionLimit) ELSE <<>>),
           IF Len(caption) > 0 THEN sendWhatsAppText(ImageFallbackPrefix \o caption)
           ELSE <<>>)>>

\* --------------------------- src/index.js sendWhatsAppButtons / sendWhatsAppList

\* `${index + 1}. ${title}\n` for every element, numbered from 1
RECURSIVE NumberedFrom(_, _)
NumberedFrom(titles, k) ==
  IF k > Len(titles) THEN <<>>
  ELSE NumText(k) \o <<".", " ">> \o titles[k] \o <<"\n">> \o NumberedFrom(titles, k + 1)

Titles(items) == [k \in 1..Len(items) |-> items[k].title]

RECURSIVE SectionLines(_)
SectionLines(sections) ==
  IF sections = <<>> THEN <<>>
  ELSE NumberedFrom(Titles(Head(sections).rows), 1) \o SectionLines(Tail(sections))

sendWhatsAppButtons(text, buttons) ==
  LET fallbackText == text \o <<"\n", "\n">> \o NumberedFrom(Titles(buttons), 1)
  IN  IF Len(buttons) = 0 THEN Catch(sendWhatsAppText(text), sendWhatsAppText(fallbackText))
      ELSE <<SendCaught(
               ButtonsMsg(text, SubSeq(buttons, 1, Min(buttonCap, Len(buttons)))),
               sendWhatsAppText(fallbackText))>>

SelectHeader == <<"S", "e", "l", "e", "c", "t", " ", "a", "n", " ", "O", "p", "t", "i", "o", "n">>

sendWhatsAppList(bodyText, buttonText, sections) ==
  LET fallbackText == bodyText \o <<"\n", "\n">> \o SectionLines(sections)
  IN  IF Len(sections) = 0
      THEN Catch(sendWhatsAppText(bodyText), sendWhatsAppText(fallbackText))
      ELSE <<SendCaught(
               ListMsg(SelectHeader, bodyText, buttonText, sections),
               sendWhatsAppText(fallbackText))>>

\* ------------------------------------------------------------------ traces
\* A missing payload field is the empty sequence: the dispatchers only test
\* the fields' truthiness.  NullTrace is an array element that is null.

NullTrace == [type |-> "<null>"]

Repeat(c, n) == [k \in 1..n |-> c]

Hello == <<"H", "e", "l", "l", "o", "!">>

PickOne == <<"P", "i", "c", "k", " ", "o", "n", "e">>

Url == <<"h", "t", "t", "p", ":", "/", "/", "i">>

\* button names "A", "B", ...: the plain pool
PlainButtons ==
  [k \in 1..(MaxButtons + 1) |->
     [name |-> << <<"A", "B", "C", "D", "E", "F", "G", "H", "I", "J", "K", "L", "M">>[k] >>,
      label |-> <<>>]]

\* the same, with a name and a label longer than any cap, and a missing name
OddButtons ==
  [k \in 1..(MaxButtons + 1) |->
     IF k = 1 THEN [name |-> Repeat("x", rowTitleCap + 1), label |-> Repeat("y", rowDescriptionCap + 1)]
     ELSE IF k = 2 THEN [name |-> <<>>, label |-> <<"l">>]
     ELSE PlainButtons[k]]

ChoiceTraces ==
  {[type |-> "choice", message |-> m, buttons |-> SubSeq(pool, 1, n)] :
     m \in {PickOne, <<>>}, pool \in {PlainButtons, OddButtons}, n \in 0..MaxButtons}

TextTraces ==
  { [type |-> "text", message |-> Hello], [type |-> "speak", message |-> Hi],
    [type |-> "text", message |-> <<>>] }

VisualTraces ==
  { [type |-> "visual", image |-> Url, text |-> Look],
    [type |-> "visual", image |-> Url, text |-> <<>>],
    [type |-> "visual", image |-> <<>>, text |-> Look] }

UnknownTraces == {[type |-> "debug"], NullTrace}

Homes == <<"H", "o", "m", "e", "s">>

Nice == <<"N", "i", "c", "e">>

Letters == <<"A", "B", "C", "D", "E", "F", "G", "H", "I", "J", "K", "L", "M">>

\* cards titled "A", "B", ..., without description or image
PlainCards ==
  [k \in 1..(MaxCards + 1) |-> [title |-> <<Letters[k]>>, description |-> <<>>, imageUrl |-> <<>>]]

\* the same, with a title and a description longer than any cap, a missing
\* title, and an image on the first two cards
OddCards ==
  [k \in 1..(MaxCards + 1) |->
     IF k = 1 THEN [title |-> Repeat("x", rowTitleCap + 1),
                    description |-> Repeat("y", rowDescriptionCap + 1), imageUrl |-> Url]
     ELSE IF k = 2 THEN [title |-> <<>>, description |-> Nice, imageUrl |-> Url]
     ELSE PlainCards[k]]

\* one card: title and description, with and without an image
SingleCards ==
  {<<[title |-> t, description |-> d, imageUrl |-> i]>> :
     t \in {Villa, <<>>}, d \in {Nice, <<>>}, i \in {Url, <<>>}}

CarouselTraces ==
  {[type |-> "carousel", title |-> t, cards |-> c] :
     t \in {Homes, <<>>},
     c \in SingleCards \cup {SubSeq(pool, 1, n) : pool \in {PlainCards, OddCards}, n \in 0..MaxCards}}

CardTraces ==
  {[type |-> "cardV2", title |-> t, description |-> d, text |-> x] :
     t \in {Villa, <<>>}, d \in {Nice, <<>>}, x \in {Look, <<" ">>, <<>>}}

ImageTraces ==
  {[type |-> "image", imageURL |-> i, text |-> x] : i \in {Url, <<>>}, x \in {Look, <<>>}}

\* ------------------------------- src/unnamed/part_000 handleChoiceMessage

ButtonId(prefix, index) == [prefix |-> prefix, index |-> index]

OptionName(name, index) == OrElse(name, OptionPrefix \o NumText(index + 1))

\* buttons.slice(0, 3).map(...): ids and array indexes count from 0
ReplyButtons(buttons) ==
  [k \in 1..Min(buttonCap, Len(buttons)) |->
     [id |-> ButtonId("btn", k - 1),
      title |-> Substring(OptionName(buttons[k].name, k - 1), buttonTitleCap)]]

\* buttons.slice(0, 10).map(...)
ChoiceRows(buttons) ==
  [k \in 1..Min(listRowCap, Len(buttons)) |->
     [id |-> ButtonId("choice", k - 1),
      title |-> Substring(OptionName(buttons[k].name, k - 1), rowTitleCap),
      description |-> Substring(buttons[k].label, rowDescriptionCap)]]

ChooseAnOption ==
  <<"C", "h", "o", "o", "s", "e", " ", "a", "n", " ", "O", "p", "t", "i", "o", "n">>

OptionsHeader == <<"O", "p", "t", "i", "o", "n", "s">>

\* if (buttons.length <= 3): reply buttons, else a list
UseReplyButtons_Below(buttons) == Len(buttons) < buttonCap

UseReplyButtons(buttons) == Len(buttons) <= buttonCap

handleChoiceMessage(payload) ==
  LET buttons == payload.buttons
      messageText == OrElse(payload.message, DefaultChoicePrompt)
  IN  IF Len(buttons) = 0 THEN <<>>
      ELSE IF UseReplyButtons(buttons)
      THEN sendWhatsAppMessage(ButtonsMsg(messageText, ReplyButtons(buttons)))
      ELSE sendWhatsAppMessage(
             ListMsg(OptionsHeader, messageText, ChooseLabel,
                     <<[title |-> ChooseAnOption, rows |-> ChoiceRows(buttons)]>>))

\* src/index.js calls handleChoiceButtons, whose body is not in src/: it is
\* modelled from the Choice Handler of the specification (4.3b), on the
\* senders src/index.js does hold
handleChoiceButtons(payload) ==
  LET buttons == payload.buttons
      messageText == OrElse(payload.message, DefaultChoicePrompt)
  IN  IF Len(buttons) = 0 THEN <<>>
      ELSE IF Len(buttons) <= buttonCap
      THEN sendWhatsAppButtons(messageText, ReplyButtons(buttons))
      ELSE sendWhatsAppList(messageText, ChooseLabel,
                            <<[title |-> ChooseAnOption, rows |-> ChoiceRows(buttons)]>>)

\* ----------------------------- src/unnamed/part_000 handleCarouselMessage

\* `*${s}*`
Bold(s) == <<"*">> \o s \o <<"*">>

BlankLine == <<"\n", "\n">>

CardWord == <<"C", "a", "r", "d">>

AvailableOptions ==
  <<
    "A", "v", "a", "i", "l", "a", "b", "l", "e", " ", "O", "p", "t", "i", "o", "n", "s"
  >>

SelectPrompt ==
  <<
    "P", "l", "e", "a", "s", "e", " ", "s", "e", "l", "e", "c", "t", " ", "a", "n", " ", "o",
    "p", "t", "i", "o", "n", " ", "f", "r", "o", "m", " ", "t", "h", "e", " ", "l", "i", "s",
    "t", " ", "b", "e", "l", "o", "w", ":"
  >>

SelectOptionLabel ==
  <<
    "S", "e", "l", "e", "c", "t", " ", "O", "p", "t", "i", "o", "n"
  >>

\* `*${card.title || 'Card'}*${card.description ? '\n\n' + card.description : ''}`
CardCaption(card) ==
  Bold(OrElse(card.title, CardWord))
    \o (IF Len(card.description) > 0 THEN BlankLine \o card.description ELSE <<>>)

\* cards.slice(0, 10).map(...)
CarouselRows_Unsliced(cards) ==
  [k \in 1..Len(cards) |->
     [id |-> ButtonId("carousel", k - 1),
      title |-> Substring(OptionName(cards[k].title, k - 1), rowTitleCap),
      description |-> Substring(cards[k].description, rowDescriptionCap)]]

CarouselRows(cards) ==
  [k \in 1..Min(listRowCap, Len(cards)) |->
     [id |-> ButtonId("carousel", k - 1),
      title |-> Substring(OptionName(cards[k].title, k - 1), rowTitleCap),
      description |-> Substring(cards[k].description, rowDescriptionCap)]]

\* if (cards.length === 1): one rich message, else the list
SingleCard_UpToTwo(cards) == Len(cards) <= 2

SingleCard(cards) == Len(cards) = 1

\* if (payload.title): the title as a text of its own, then 500 ms
CarouselTitle_Never(payload) == <<>>

CarouselTitle(payload) ==
  IF Len(payload.title) > 0
  THEN sendWhatsAppMessage(TextMsg(payload.title)) \o <<Delay(carouselTitleDelay)>>
  ELSE <<>>

handleCarouselMessage(payload) ==
  LET cards == payload.cards
  IN  IF Len(cards) = 0 THEN <<>>
      ELSE CarouselTitle(payload)
             \o (IF SingleCard(cards)
                 THEN IF Len(cards[1].imageUrl) > 0
                      THEN sendWhatsAppMessage(ImageMsg(cards[1].imageUrl, CardCaption(cards[1])))
                      ELSE sendWhatsAppMessage(TextMsg(CardCaption(cards[1])))
                 ELSE sendWhatsAppMessage(
                        ListMsg(AvailableOptions, SelectPrompt, SelectOptionLabel,
                                <<[title |-> AvailableOptions, rows |-> CarouselRows(cards)]>>)))

\* ------------------------------ src/unnamed/part_000 handleCardV2Message

CardV2Text(payload) ==
  (IF Len(payload.title) > 0 THEN Bold(payload.title) \o BlankLine ELSE <<>>)
    \o (IF Len(payload.description) > 0 THEN payload.description \o BlankLine ELSE <<>>)
    \o payload.text

handleCardV2Message(payload) ==
  IF Len(Trim(CardV2Text(payload))) > 0
  THEN sendWhatsAppMessage(TextMsg(Trim(CardV2Text(payload))))
  ELSE <<>>

\* ------------------------------------------------ src/index.js handleCarousel
\* src/index.js ends inside handleCarousel: the title and the head of the
\* single-card branch are there, the card messages are modelled from the
\* Carousel Handler of the specification (4.3a) on the senders of src/index.js

IndexCardCaption(card) ==
  card.title \o (IF Len(card.description) > 0 THEN BlankLine \o card.description ELSE <<>>)

handleCarouselCards(cards) ==
  IF Len(cards) = 1
  THEN IF Len(cards[1].imageUrl) > 0
       THEN sendWhatsAppImage(cards[1].imageUrl, IndexCardCaption(cards[1]))
       ELSE sendWhatsAppText(IndexCardCaption(cards[1]))
  ELSE sendWhatsAppList(SelectPrompt, SelectOptionLabel,
                        <<[title |-> AvailableOptions, rows |-> CarouselRows(cards)]>>)

handleCarousel(payload) ==
  LET cards == payload.cards
  IN  IF Len(cards) = 0 THEN <<>>
      ELSE (IF Len(payload.title) > 0
            THEN sendWhatsAppText(Bold(payload.title)) \o <<Delay(carouselTitleDelay)>>
            ELSE <<>>)
             \o handleCarouselCards(cards)

\* src/index.js calls handleCardV2, whose body is not in src/: the card
\* flattening of the specification (4.3) on sendWhatsAppText
handleCardV2(payload) == sendWhatsAppText(Trim(CardV2Text(payload)))

\* ----------------------------------------------------- the dispatchers' switch

\* src/index.js processVoiceflowResponse: the switch on trace.type
processVoiceflowResponseArm(trace) ==
  CASE trace.type \in {"text", "speak"} ->
         IF Len(trace.message) > 0 THEN sendWhatsAppText(trace.message) ELSE <<>>
    [] trace.type = "visual" ->
         IF Len(trace.image) > 0 THEN sendWhatsAppImage(trace.image, trace.text) ELSE <<>>
    [] trace.type = "carousel" ->
         IF Len(trace.cards) > 0 THEN handleCarousel(trace) ELSE <<>>
    [] trace.type = "choice" ->
         IF Len(trace.buttons) > 0 THEN handleChoiceButtons(trace) ELSE <<>>
    [] trace.type = "cardV2" -> handleCardV2(trace)
    [] OTHER -> <<>>

\* src/unnamed/part_000 processVoiceflowTraces: messageSent after the switch
messageSent(trace) ==
  CASE trace.type \in {"text", "speak"} -> Len(trace.message) > 0
    [] trace.type = "visual" -> Len(trace.image) > 0
    [] trace.type = "carousel" -> Len(trace.cards) > 0
    [] trace.type = "choice" -> Len(trace.buttons) > 0
    [] trace.type = "cardV2" -> TRUE
    [] trace.type = "image" -> Len(trace.imageURL) > 0
    [] OTHER -> FALSE

\* src/unnamed/part_000 processVoiceflowTraces: the switch on trace.type
processVoiceflowTracesArm_NoSpeak(trace) ==
  CASE ~messageSent(trace) \/ trace.type = "speak" -> <<>>
    [] trace.type = "text" -> sendWhatsAppMessage(TextMsg(trace.message))
    [] trace.type = "visual" -> sendWhatsAppMessage(ImageMsg(trace.image, trace.text))
    [] trace.type = "carousel" -> handleCarouselMessage(trace)
    [] trace.type = "choice" -> handleChoiceMessage(trace)
    [] trace.type = "cardV2" -> handleCardV2Message(trace)
    [] trace.type = "image" -> sendWhatsAppMessage(ImageMsg(trace.imageURL, trace.text))

processVoiceflowTracesArm(trace) ==
  CASE ~messageSent(trace) -> <<>>
    [] trace.type \in {"text", "speak"} -> sendWhatsAppMessage(TextMsg(trace.message))
    [] trace.type = "visual" -> sendWhatsAppMessage(ImageMsg(trace.image, trace.text))
    [] trace.type = "carousel" -> handleCarouselMessage(trace)
    [] trace.type = "choice" -> handleChoiceMessage(trace)
    [] trace.type = "cardV2" -> handleCardV2Message(trace)
    [] trace.type = "image" -> sendWhatsAppMessage(ImageMsg(trace.imageURL, trace.text))

\* the body of one loop iteration: the switch, then the pacing delay
TraceSteps(v, trace, last) ==
  IF v = "index"
  THEN processVoiceflowResponseArm(trace) \o (IF last THEN <<>> ELSE <<Delay(traceDelay)>>)
  ELSE processVoiceflowTracesArm(trace)
         \o (IF messageSent(trace) /\ ~last THEN <<Delay(delayBetweenMessages)>> ELSE <<>>)

\* ------------------------------------------------------- the webhook delivery
\* delivery is req.body.entry: entries, each with its changes, each change
\* with a field and its messages.  A message is named by its position.

MsgIds(d) ==
  UNION { UNION { {<<e, c, k>> : k \in 1..Len(d[e].changes[c].messages)} :
                  c \in 1..Len(d[e].changes) } : e \in 1..Len(d) }

MessageAt(d, id) == d[id[1]].changes[id[2]].messages[id[3]]

Tasks == MsgIds(delivery)

\* the messages the POST handler loops over: those of entry[0]'s changes
\* whose field is "messages"
Dispatched(d) ==
  {id \in MsgIds(d) : id[1] = 1 /\ d[1].changes[id[2]].field = "messages"}

Change(f, ms) == [field |-> f, messages |-> ms]

Entry(cs) == [changes |-> cs]

OneMessage(m) == <<[changes |-> <<[field |-> "messages", messages |-> <<m>>]>>]>>

\* ------------------------------------------------------------------ state

Set(f, t, v) == [f EXCEPT ![t] = v]

Drop(s, n) == SubSeq(s, Min(n, Len(s)) + 1, Len(s))

\* the position of the next request or timer in the task's history
Stamp(t) == Len(wire[t]) + Len(calls[t]) + Len(delays[t]) + 1

InitWith(D, R) ==
  /\ variant \in Variants
  /\ delivery \in D
  /\ reply \in [MsgIds(delivery) -> R]
  /\ ack = 0
  /\ pc = [t \in MsgIds(delivery) |-> "none"]
  /\ utter = [t \in MsgIds(delivery) |-> <<>>]
  /\ attempt = [t \in MsgIds(delivery) |-> 0]
  /\ traces = [t \in MsgIds(delivery) |-> <<>>]
  /\ idx = [t \in MsgIds(delivery) |-> 0]
  /\ plan = [t \in MsgIds(delivery) |-> <<>>]
  /\ wire = [t \in MsgIds(delivery) |-> <<>>]
  /\ calls = [t \in MsgIds(delivery) |-> <<>>]
  /\ delays = [t \in MsgIds(delivery) |-> <<>>]

\* --------------------------------------------------------- POST /webhook

\* res.sendStatus(200): the first statement of the handler that acts
Acknowledge ==
  /\ ack = 0
  /\ ack' = 200
  /\ UNCHANGED <<variant, delivery, reply, pc, utter, attempt, traces, idx, plan, wire,
                 calls, delays>>

\* the statements after res.sendStatus(200) run once it has been called
AckSent_NotYet(a) == TRUE

AckSent(a) == a = 200

\* the loops over entry[0].changes and their messages: processMessage(...)
\* is started, not awaited, for every message of the loop
Post ==
  /\ AckSent(ack)
  /\ \A t \in Tasks : pc[t] = "none"
  /\ Dispatched(delivery) # {}
  /\ pc' = [t \in Tasks |-> IF t \in Dispatched(delivery) THEN "start" ELSE "none"]
  /\ UNCHANGED <<variant, delivery, reply, ack, utter, attempt, traces, idx, plan, wire,
                 calls, delays>>

\* ----------------------------------------------------- control of one task
\* pc: "start"     processMessage entered
\*     "typing"    (index) sendTypingIndicator running
\*     "call"      about to post to the dialogue backend
\*     "backend"   the dialogue request is in flight
\*     "backoff"   (part) waiting before the next attempt
\*     "dispatch"  at the head of the dispatcher's loop, i = idx
\*     "trace"     inside the try of iteration idx
\*     "notraces"  (index) sending the no-response text
\*     "fallback"  (part) sending the fallback greeting in the retry catch
\*     "error"     in processMessage's catch, sending the error text
\*     "skipped"   processMessage returned without an exchange
\*     "done"      processMessage returned after the exchange
\*     "handled"   processMessage returned from its catch
\*     "rejected"  processMessage's promise rejected
\*     "killed"    the process ended while the task was running

\* where control goes when the steps of the current context have all run
FinishPc(p) ==
  CASE p = "typing" -> "call"
    [] p = "backoff" -> "call"
    [] p = "trace" -> "dispatch"
    [] p = "notraces" -> "done"
    [] p = "fallback" -> "done"
    [] p = "error" -> "handled"
    [] OTHER -> p

\* part_000: while (attempt < maxRetries), tested again after a backoff wait
LoopContinues(n) == n < maxRetries

\* continue the current context with the steps p
Resume(t, p) ==
  /\ plan' = Set(plan, t, p)
  /\ IF p # <<>> THEN UNCHANGED <<pc, idx>>
     ELSE /\ pc' = Set(pc, t, IF pc[t] = "backoff" /\ ~LoopContinues(attempt[t])
                              THEN "done" ELSE FinishPc(pc[t]))
          /\ idx' = Set(idx, t, IF pc[t] = "trace" THEN idx[t] + 1 ELSE idx[t])

\* processMessage's catch block: send the error text
ErrorSteps(v) ==
  IF v = "index" THEN sendWhatsAppText(TechnicalDifficultiesText)
  ELSE sendWhatsAppMessage(TextMsg(TechnicalDifficultiesMessage))

EnterCatch(t) ==
  /\ pc' = Set(pc, t, "error")
  /\ plan' = Set(plan, t, ErrorSteps(variant))
  /\ UNCHANGED idx

\* part_000 handleVoiceflowConversation: the catch of the retry loop
RetryGivesUp(n) == n >= maxRetries

\* const waitTime = 2000 * attempt
BackoffWait_Fixed(n) == backoffBase

BackoffWait(n) == backoffBase * n

RetryCatch(t) ==
  /\ IF RetryGivesUp(attempt[t])
     THEN /\ pc' = Set(pc, t, "fallback")
          /\ plan' = Set(plan, t, sendWhatsAppMessage(TextMsg(FallbackGreeting)))
     ELSE /\ pc' = Set(pc, t, "backoff")
          /\ plan' = Set(plan, t, <<Delay(BackoffWait(attempt[t]))>>)
  /\ UNCHANGED idx

\* the catch of one loop iteration: log, and on to the next trace
TraceCatch_Abort(t) ==
  /\ pc' = Set(pc, t, "done")
  /\ plan' = Set(plan, t, <<>>)
  /\ UNCHANGED idx

TraceCatch(t) ==
  /\ pc' = Set(pc, t, "dispatch")
  /\ idx' = Set(idx, t, idx[t] + 1)
  /\ plan' = Set(plan, t, <<>>)

\* processMessage(...).catch(...): the handler attaches a catch to every
\* task's promise
CatchAttached_Missing == FALSE

CatchAttached == TRUE

\* processMessage's promise rejects: the attached catch logs it; a rejection
\* nobody handles ends the process, and every task with it
Reject(t) ==
  /\ IF CatchAttached
     THEN /\ pc' = Set(pc, t, "rejected")
          /\ plan' = Set(plan, t, <<>>)
     ELSE /\ pc' = [u \in Tasks |->
                     IF u = t THEN "rejected"
                     ELSE IF pc[u] \in {"none", "skipped", "done", "handled", "rejected"}
                     THEN pc[u] ELSE "killed"]
          /\ plan' = [u \in Tasks |-> <<>>]
  /\ UNCHANGED idx

\* an exception leaves the current context
Raise(t) ==
  CASE pc[t] = "trace" -> TraceCatch(t)
    [] pc[t] = "error" -> Reject(t)
    [] pc[t] = "dispatch" /\ variant = "part" -> RetryCatch(t)
    [] OTHER -> EnterCatch(t)

\* ------------------------------------------------------------ processMessage

\* sendTypingIndicator: the reaction request, its failure only logged
sendTypingIndicator_Throwing == <<Send(ReactionMsg)>>

sendTypingIndicator == <<SendCaught(ReactionMsg, <<>>)>>

\* from the entry of processMessage to its first await
processMessage(t) ==
  /\ pc[t] = "start"
  /\ LET m == MessageAt(delivery, t)
     IN  IF Unsupported(m) \/ EmptySkip(variant, UserInput(variant, m))
         THEN /\ pc' = Set(pc, t, "skipped")
              /\ UNCHANGED <<utter, plan>>
         ELSE /\ utter' = Set(utter, t, UserInput(variant, m))
              /\ IF variant = "index"
                 THEN /\ pc' = Set(pc, t, "typing")
                      /\ plan' = Set(plan, t, sendTypingIndicator)
                 ELSE /\ pc' = Set(pc, t, "call")
                      /\ UNCHANGED plan
  /\ UNCHANGED <<variant, delivery, reply, ack, attempt, traces, idx, wire, calls, delays>>

\* ------------------------------------------------------ the dialogue exchange

\* the action payload of the request body
ActionPayload(userInput) == userInput

\* attempt++
NextAttempt_Stuck(n) == n

NextAttempt(n) == n + 1

\* axios.post to the dialogue backend (part: attempt++ first)
CallBackend(t) ==
  /\ pc[t] = "call"
  /\ pc' = Set(pc, t, "backend")
  /\ attempt' = Set(attempt, t, IF variant = "part" THEN NextAttempt(attempt[t]) ELSE attempt[t])
  /\ calls' = Set(calls, t, Append(calls[t],
                 [payload |-> ActionPayload(utter[t]), status |-> "pending", at |-> Stamp(t)]))
  /\ UNCHANGED <<variant, delivery, reply, ack, utter, traces, idx, plan, wire, delays>>

\* what the backend can answer: no usable response (network error, timeout,
\* non-2xx), or a 2xx response whose body is null, a non-array, or the array
Answers(t) == {"error", "null", "object", "array"}

\* Array.isArray(data) of the answer
IsArrayAnswer(a) == a = "array"

\* src/index.js: sendToVoiceflow returns response.data || [], and
\* processVoiceflowResponse tests !Array.isArray(traces) || traces.length === 0
IndexResponse(t, a) ==
  IF a = "error" THEN Raise(t) /\ UNCHANGED traces
  ELSE IF ~IsArrayAnswer(a) \/ Len(reply[t]) = 0
  THEN /\ pc' = Set(pc, t, "notraces")
       /\ plan' = Set(plan, t, sendWhatsAppText(NoTracesText))
       /\ UNCHANGED <<traces, idx>>
  ELSE /\ pc' = Set(pc, t, "dispatch")
       /\ traces' = Set(traces, t, reply[t])
       /\ idx' = Set(idx, t, 1)
       /\ UNCHANGED plan

\* part_000: data && Array.isArray(data) -> processVoiceflowTraces, else throw
PartResponse(t, a) ==
  IF IsArrayAnswer(a)
  THEN /\ pc' = Set(pc, t, "dispatch")
       /\ traces' = Set(traces, t, reply[t])
       /\ idx' = Set(idx, t, 1)
       /\ UNCHANGED plan
  ELSE RetryCatch(t) /\ UNCHANGED traces

BackendResponds(t) ==
  /\ pc[t] = "backend"
  /\ \E a \in Answers(t) :
       /\ calls' = Set(calls, t, [calls[t] EXCEPT ![Len(calls[t])].status = a])
       /\ IF variant = "index" THEN IndexResponse(t, a) ELSE PartResponse(t, a)
  /\ UNCHANGED <<variant, delivery, reply, ack, utter, attempt, wire, delays>>

\* ------------------------------------------------------------ the dispatcher

\* the head of the for loop: i < traces.length, trace = traces[i], the log
\* line that reads trace.type, then the try
NextTrace(t) ==
  /\ pc[t] = "dispatch"
  /\ AwaitSend(wire[t])
  /\ IF idx[t] > Len(traces[t])
     THEN /\ pc' = Set(pc, t, "done")
          /\ UNCHANGED <<idx, plan>>
     ELSE IF traces[t][idx[t]] = NullTrace
     THEN Raise(t)
     ELSE LET steps == TraceSteps(variant, traces[t][idx[t]], idx[t] = Len(traces[t]))
          IN  /\ plan' = Set(plan, t, steps)
              /\ IF steps = <<>>
                 THEN /\ idx' = Set(idx, t, idx[t] + 1)
                      /\ UNCHANGED pc
                 ELSE /\ pc' = Set(pc, t, "trace")
                      /\ UNCHANGED idx
  /\ UNCHANGED <<variant, delivery, reply, ack, utter, attempt, traces, wire, calls, delays>>

\* --------------------------------------------------- requests and timers

\* axios.post to the WhatsApp API: the request leaves
StartSend(t) ==
  /\ plan[t] # <<>>
  /\ Head(plan[t]).op = "send"
  /\ AwaitSend(wire[t])
  /\ wire' = Set(wire, t, Append(wire[t],
                [msg |-> Head(plan[t]).msg, phase |-> pc[t],
                 trace |-> IF pc[t] = "trace" THEN idx[t] ELSE 0,
                 call |-> Len(calls[t]), status |-> "pending",
                 throws |-> Head(plan[t]).throws, fallback |-> Head(plan[t]).fallback,
                 skip |-> Head(plan[t]).skip, at |-> Stamp(t)]))
  /\ plan' = Set(plan, t, Tail(plan[t]))
  /\ UNCHANGED <<variant, delivery, reply, ack, pc, utter, attempt, traces, idx, calls,
                 delays>>

\* the request is answered (ok) or fails (error status, network error, timeout)
CompleteSend(t) ==
  \E k \in 1..Len(wire[t]) : \E ok \in BOOLEAN :
    /\ wire[t][k].status = "pending"
    /\ wire' = Set(wire, t, [wire[t] EXCEPT ![k].status = IF ok THEN "ok" ELSE "failed"])
    /\ IF ok THEN Resume(t, plan[t])
       ELSE IF wire[t][k].throws THEN Raise(t)
       ELSE Resume(t, wire[t][k].fallback \o Drop(plan[t], wire[t][k].skip))
    /\ UNCHANGED <<variant, delivery, reply, ack, utter, attempt, traces, calls, delays>>

\* a setTimeout the task awaits fires
DelayElapse(t) ==
  /\ plan[t] # <<>>
  /\ Head(plan[t]).op = "delay"
  /\ AwaitSend(wire[t])
  /\ delays' = Set(delays, t, Append(delays[t],
                  [ms |-> Head(plan[t]).ms, phase |-> pc[t],
                   trace |-> IF pc[t] = "trace" THEN idx[t] ELSE 0, at |-> Stamp(t)]))
  /\ Resume(t, Tail(plan[t]))
  /\ UNCHANGED <<variant, delivery, reply, ack, utter, attempt, traces, wire, calls>>

Next ==
  \/ Acknowledge
  \/ Post
  \/ \E t \in Tasks : processMessage(t)
  \/ \E t \in Tasks : CallBackend(t)
  \/ \E t \in Tasks : BackendResponds(t)
  \/ \E t \in Tasks : NextTrace(t)
  \/ \E t \in Tasks : StartSend(t)
  \/ \E t \in Tasks : CompleteSend(t)
  \/ \E t \in Tasks : DelayElapse(t)

\* ------------------------------------------------------- specifications

\* the traces a backend answer is drawn from
TraceUniverse ==
  TextTraces \cup VisualTraces \cup UnknownTraces
    \cup {[type |-> "choice", message |-> PickOne, buttons |-> SubSeq(PlainButtons, 1, n)] :
            n \in {buttonCap, buttonCap + 1}}
    \cup {[type |-> "carousel", title |-> Homes,
            cards |-> <<[title |-> Villa, description |-> Nice, imageUrl |-> Url]>>]}

RECURSIVE SeqsUpTo(_, _)
SeqsUpTo(S, n) ==
  IF n = 0 THEN {<<>>}
  ELSE LET shorter == SeqsUpTo(S, n - 1)
       IN  shorter \cup {Append(s, x) : s \in shorter, x \in S}

TextHi == [type |-> "text", body |-> Hi]

\* one text message, every backend answer of up to MaxTraces traces
Init == InitWith({OneMessage(TextHi)}, SeqsUpTo(TraceUniverse, MaxTraces))

Spec == Init /\ [][Next]_vars

\* every inbound message, a one-trace backend answer
InitInbound ==
  InitWith({OneMessage(m) : m \in Messages}, {<<[type |-> "text", message |-> Hello]>>})

SpecInbound == InitInbound /\ [][Next]_vars

\* one text message, a backend answer of one choice trace
InitChoice == InitWith({OneMessage(TextHi)}, {<<c>> : c \in ChoiceTraces})

SpecChoice == InitChoice /\ [][Next]_vars

\* one text message, a backend answer of one carousel trace
InitCarousel == InitWith({OneMessage(TextHi)}, {<<c>> : c \in CarouselTraces})

SpecCarousel == InitCarousel /\ [][Next]_vars

\* the traces that are sent as interactive messages, at and around the caps
CapTraces ==
  {[type |-> "choice", message |-> PickOne, buttons |-> SubSeq(OddButtons, 1, n)] :
     n \in {buttonCap, buttonCap + 1, MaxButtons}}
    \cup {[type |-> "carousel", title |-> <<>>, cards |-> SubSeq(OddCards, 1, n)] :
            n \in {2, MaxCards}}

\* one text message; the answer is one choice or carousel trace, or up to
\* MaxTraces traces around the caps
InitInteractive ==
  InitWith({OneMessage(TextHi)},
           {<<c>> : c \in ChoiceTraces \cup CarouselTraces} \cup SeqsUpTo(CapTraces, MaxTraces))

SpecInteractive == InitInteractive /\ [][Next]_vars

\* texts at and over the text limit: runs of one letter, and one with a
\* line break inside its first chunk
LongTexts ==
  {Repeat("a", n) : n \in {maxLength, maxLength + 1, 4096 + 1, LongLen}}
    \cup {[k \in 1..LongLen |-> IF k = 100 THEN "\n" ELSE "a"]}

\* one text message, a backend answer of one long text trace
InitLongText ==
  InitWith({OneMessage(TextHi)}, {<<[type |-> "text", message |-> x]>> : x \in LongTexts})

SpecLongText == InitLongText /\ [][Next]_vars

TextYes == [type |-> "text", body |-> Yes]

\* deliveries of zero, one and two entries, of changes with and without
\* messages, and of changes of another field
Deliveries ==
  { <<>>,
    <<Entry(<<>>)>>,
    <<Entry(<<Change("messages", <<TextHi, TextYes>>)>>)>>,
    <<Entry(<<Change("messages", <<TextHi>>), Change("statuses", <<>>),
              Change("messages", <<>>), Change("messages", <<TextYes>>)>>)>>,
    <<Entry(<<Change("messages", <<TextHi>>)>>), Entry(<<Change("messages", <<TextYes>>)>>)>> }

\* every delivery, each message answered by one text trace
InitDelivery == InitWith(Deliveries, {<<[type |-> "text", message |-> Hello]>>})

SpecDelivery == InitDelivery /\ [][Next]_vars

\* one text message, a backend answer of one text one character longer than
\* a chunk
InitTwoChunks ==
  InitWith({OneMessage(TextHi)}, {<<[type |-> "text", message |-> Repeat("a", maxLength + 1)]>>})

\* every inbound message with a one-trace answer, the text "Hi" with every
\* answer of up to MaxTraces traces and with the text of two chunks
InitFair == Init \/ InitInbound \/ InitTwoChunks

\* the program's own steps are taken when they can be; every request is
\* answered or fails and every timer fires
Fairness == WF_vars(Next)

SpecFair == InitFair /\ [][Next]_vars /\ Fairness

\* ------------------------------------------------------------ the claims

Pending(w) == {k \in 1..Len(w) : w[k].status = "pending"}

\* the requests the dispatcher made for the traces of the current answer
TraceSends(t) ==
  {k \in 1..Len(wire[t]) : wire[t][k].phase = "trace" /\ wire[t][k].call = Len(calls[t])}

\* the dispatcher has returned normally to its caller
DispatchReturned(t) ==
  /\ pc[t] = "done"
  /\ Len(calls[t]) > 0
  /\ calls[t][Len(calls[t])].status = "array"
  /\ Len(traces[t]) > 0

\* C1: within one message's pipeline the sends follow the order of the
\* traces: a request for a later trace is never posted while a request for
\* an earlier trace is unanswered, and at most one request is in flight.
C1_SendsInTraceOrder ==
  \A t \in Tasks :
    /\ Cardinality(Pending(wire[t])) <= 1
    /\ \A k, l \in 1..Len(wire[t]) :
         (k < l /\ wire[t][k].phase = "trace" /\ wire[t][l].phase = "trace"
            /\ wire[t][k].call = wire[t][l].call)
         => /\ wire[t][k].trace <= wire[t][l].trace
            /\ wire[t][k].trace < wire[t][l].trace => wire[t][k].status # "pending"

\* two traces of one answer have each had a request, the later one in flight
C1_Witness ==
  \E t \in Tasks : \E k, l \in TraceSends(t) :
    /\ wire[t][k].trace < wire[t][l].trace
    /\ wire[t][k].status # "pending"
    /\ wire[t][l].status = "pending"

\* a trace the dispatcher has something to send for
SendableTrace(trace) ==
  \/ trace.type \in {"text", "speak"} /\ trace.message # <<>>
  \/ trace.type = "visual" /\ trace.image # <<>>
  \/ trace.type = "choice" /\ trace.buttons # <<>>
  \/ trace.type = "carousel" /\ trace.cards # <<>>

Attempted(t, j) == \E k \in TraceSends(t) : wire[t][k].trace = j

FailedTraces(t) == {wire[t][k].trace : k \in {n \in TraceSends(t) : wire[t][n].status = "failed"}}

\* C2: when the dispatcher has returned from an answer of sendable traces, a
\* request was posted for every one of them, whichever requests failed.
C2_FailureIsolation ==
  \A t \in Tasks :
    (DispatchReturned(t) /\ \A j \in 1..Len(traces[t]) : SendableTrace(traces[t][j]))
    => \A j \in 1..Len(traces[t]) : Attempted(t, j)

\* N >= 2 sendable traces, the request of exactly one trace failed, and it
\* was not the last trace
C2_Witness ==
  \E t \in Tasks :
    /\ DispatchReturned(t)
    /\ Len(traces[t]) >= 2
    /\ \A j \in 1..Len(traces[t]) : SendableTrace(traces[t][j]) /\ Attempted(t, j)
    /\ Cardinality(FailedTraces(t)) = 1
    /\ \E j \in FailedTraces(t) : j < Len(traces[t])
    /\ Cardinality({k \in 1..Len(wire[t]) : wire[t][k].status = "failed"}) = 1

\* the bodies of the text requests of a task, in the order posted
RECURSIVE TextBodies(_)
TextBodies(w) ==
  IF w = <<>> THEN <<>>
  ELSE (IF Head(w).msg.type = "text" THEN <<Head(w).msg.body>> ELSE <<>>) \o TextBodies(Tail(w))

PlainTextAnswer(ts) ==
  /\ Len(ts) > 0
  /\ \A j \in 1..Len(ts) :
       /\ ts[j].type \in {"text", "speak"}
       /\ Len(ts[j].message) > 0
       /\ Len(ts[j].message) <= maxLength

Settled(t) == pc[t] \in {"skipped", "done", "handled", "rejected"}

AllCallsFailed(t) ==
  /\ Len(calls[t]) > 0
  /\ \A k \in 1..Len(calls[t]) : calls[t][k].status = "error"

\* C4: when every backend call of a message has failed, there were exactly
\* maxRetries calls and the only request posted to the user is one text
\* carrying the fallback greeting.
C4_ExhaustionGreeting ==
  \A t \in Tasks :
    (Settled(t) /\ AllCallsFailed(t))
    => /\ Len(calls[t]) = maxRetries
       /\ Len(wire[t]) = 1
       /\ wire[t][1].msg = TextMsg(FallbackGreeting)

\* C5: processMessage never runs its catch block after a backend failure:
\* the catch is entered only when the last backend call returned an array.
C5_ExchangeNeverThrows ==
  \A t \in Tasks :
    pc[t] \in {"error", "handled", "rejected"}
    => /\ Len(calls[t]) > 0
       /\ calls[t][Len(calls[t])].status = "array"

\* C6: nothing is dispatched or answered directly after a 2xx response whose
\* body is not an array: every request of the dispatcher, and the
\* no-response text, follows a call that returned an array.
C6_NonArrayIsRetried ==
  \A t \in Tasks : \A k \in 1..Len(wire[t]) :
    wire[t][k].phase \in {"trace", "notraces"}
    => calls[t][wire[t][k].call].status = "array"

\* C7: a message whose extracted input is empty or blank is skipped: no
\* backend call carries an empty or blank payload, and such a message gets no
\* backend call and no request to the user.
C7_BlankInputSkipped ==
  \A t \in Tasks :
    /\ \A k \in 1..Len(calls[t]) : ~IsBlank(calls[t][k].payload)
    /\ (~Unsupported(MessageAt(delivery, t))
          /\ IsBlank(UserInput(variant, MessageAt(delivery, t))))
       => calls[t] = <<>> /\ wire[t] = <<>>

\* C8: a message of an unsupported kind is skipped without error: no
\* backend call, no request to the user of any type, no timer.
C8_UnsupportedSkipped ==
  \A t \in Tasks :
    MessageAt(delivery, t).type \notin {"text", "interactive", "image", "audio", "document"}
    => /\ pc[t] \in {"none", "start", "skipped"}
       /\ calls[t] = <<>>
       /\ wire[t] = <<>>
       /\ delays[t] = <<>>

C8_Witness ==
  \E t \in Tasks : MessageAt(delivery, t).type = "sticker" /\ pc[t] = "skipped"

\* the normalisation the specification gives (4.1), where it gives one
NormalizedAs(m, s) ==
  CASE m.type = "text" -> s = m.body
    [] m.type = "interactive" /\ m.itype \in {"button_reply", "list_reply"} -> s = m.title
    [] m.type \in {"image", "document"} /\ m.caption # <<>> -> s = m.caption
    [] m.type = "image" -> s = ImagePlaceholder /\ s # <<>>
    [] m.type = "document" -> s = DocumentPlaceholder /\ s # <<>>
    [] m.type = "audio" -> s \in {VoicePlaceholder, AudioPlaceholder} /\ s # <<>>
    [] OTHER -> TRUE

\* C9: every backend call carries, as its action payload, the normalisation
\* of the inbound message: body, reply title, row title, caption or the
\* fixed placeholder of the media kind.
C9_PayloadIsNormalized ==
  \A t \in Tasks : \A k \in 1..Len(calls[t]) :
    NormalizedAs(MessageAt(delivery, t), calls[t][k].payload)

\* a button reply whose id differs from its title reached the backend, and
\* so did an audio message and a captioned image
C9_Witness ==
  \E t \in Tasks :
    /\ Len(calls[t]) > 0
    /\ MessageAt(delivery, t).type = "interactive"
    /\ MessageAt(delivery, t).itype = "button_reply"
    /\ MessageAt(delivery, t).id # MessageAt(delivery, t).title
    /\ calls[t][1].payload = Yes

InteractiveSends(t) == {k \in 1..Len(wire[t]) : wire[t][k].msg.type = "interactive"}

\* part_000 has dispatched an answer that is one choice trace with buttons
ChoiceDispatched(t) ==
  /\ variant = "part"
  /\ DispatchReturned(t)
  /\ Len(traces[t]) = 1
  /\ traces[t][1].type = "choice"
  /\ Len(traces[t][1].buttons) >= 1

\* a button's title: its name, "Option k" for a missing name, cut to cap
TitleFor(name, k, cap) ==
  LET full == IF name = <<>> THEN OptionPrefix \o NumText(k) ELSE name
  IN  SubSeq(full, 1, Min(cap, Len(full)))

ButtonsShape(m, b) ==
  /\ m.itype = "button"
  /\ Len(m.buttons) = Len(b)
  /\ \A i \in 1..Len(b) : m.buttons[i].title = TitleFor(b[i].name, i, buttonTitleCap)

\* exact: the row titles are the names themselves
ListShape(m, b, exact) ==
  /\ m.itype = "list"
  /\ m.button = ChooseLabel
  /\ Len(m.sections) = 1
  /\ Len(m.sections[1].rows) = Min(Len(b), listRowCap)
  /\ \A i \in 1..Min(Len(b), listRowCap) :
       m.sections[1].rows[i].title =
         IF exact THEN b[i].name ELSE TitleFor(b[i].name, i, rowTitleCap)

ChoiceShape(t, exact) ==
  LET b == traces[t][1].buttons
  IN  /\ Cardinality(InteractiveSends(t)) = 1
      /\ \A k \in InteractiveSends(t) :
           IF Len(b) <= 3 THEN ButtonsShape(wire[t][k].msg, b)
           ELSE ListShape(wire[t][k].msg, b, exact)

\* C10 as stated: 1..3 buttons give one interactive-buttons message with
\* that many buttons, 4 or more give one interactive-list message of
\* min(n, 10) rows whose titles are the button names, labelled "Choose".
C10_RowsTitledByNames ==
  \A t \in Tasks : ChoiceDispatched(t) => ChoiceShape(t, TRUE)

\* C10 as amended: the same, a row's title being the button's name cut to
\* its first 24 characters, or "Option k" when the k-th button has no name.
C10_ChoiceThreshold ==
  \A t \in Tasks : ChoiceDispatched(t) => ChoiceShape(t, FALSE)

\* four buttons, the first with a name of 25 characters, went out as a list
C10_Witness ==
  \E t \in Tasks :
    /\ ChoiceDispatched(t)
    /\ Len(traces[t][1].buttons) = buttonCap + 1
    /\ Len(traces[t][1].buttons[1].name) > rowTitleCap
    /\ \E k \in InteractiveSends(t) : wire[t][k].msg.itype = "list"

IsTraceSend(w) == w.phase = "trace"

\* the answer being dispatched is one carousel trace with at least one card
CarouselAnswer(t) ==
  /\ Len(traces[t]) = 1
  /\ traces[t][1].type = "carousel"
  /\ Len(traces[t][1].cards) >= 1

\* the title as a message of its own (src/index.js sends it in bold)
TitleMessage(m, title) ==
  /\ m.type = "text"
  /\ m.body \in {title, <<"*">> \o title \o <<"*">>}

\* the requests made for the cards: those after the title's, if there is one
CardSends(t) ==
  LET sent == SelectSeq(wire[t], IsTraceSend)
  IN  IF traces[t][1].title # <<>> /\ sent # <<>> THEN Tail(sent) ELSE sent

\* title in bold, then the description as a paragraph of its own
ComposedCaption(card) ==
  <<"*">> \o card.title \o <<"*">>
    \o (IF card.description # <<>> THEN <<"\n", "\n">> \o card.description ELSE <<>>)

CardMessageShape(m, cards) ==
  IF Len(cards) = 1
  THEN IF cards[1].imageUrl # <<>>
       THEN /\ m.type = "image"
            /\ m.link = cards[1].imageUrl
            /\ cards[1].title # <<>> => m.caption = ComposedCaption(cards[1])
       ELSE /\ m.type = "text"
            /\ cards[1].title # <<>> => m.body = ComposedCaption(cards[1])
  ELSE /\ m.type = "interactive"
       /\ m.itype = "list"
       /\ Len(m.sections) = 1
       /\ Len(m.sections[1].rows) = Min(Len(cards), 10)
       /\ \A i \in 1..Min(Len(cards), 10) :
            m.sections[1].rows[i].title = TitleFor(cards[i].title, i, 24)

ButtonsWithinCaps(m) ==
  /\ Len(m.buttons) \in 1..3
  /\ \A i \in 1..Len(m.buttons) : Len(m.buttons[i].title) <= 20

RowsOf(m) == UNION {{sec.rows[i] : i \in 1..Len(sec.rows)} : sec \in {m.sections[j] : j \in 1..Len(m.sections)}}

RECURSIVE RowCount(_)
RowCount(sections) ==
  IF sections = <<>> THEN 0 ELSE Len(Head(sections).rows) + RowCount(Tail(sections))

ListWithinCaps(m) ==
  /\ RowCount(m.sections) \in 1..10
  /\ \A r \in RowsOf(m) : Len(r.title) <= 24 /\ Len(r.description) <= 72

\* C12: every interactive message part_000 puts on the wire is within the
\* platform caps: 1 to 3 buttons with titles of at most 20 characters, or 1
\* to 10 rows with titles of at most 24 and descriptions of at most 72.
C12_PlatformCaps ==
  \A t \in Tasks : \A k \in 1..Len(wire[t]) :
    (variant = "part" /\ wire[t][k].msg.type = "interactive")
    => IF wire[t][k].msg.itype = "button" THEN ButtonsWithinCaps(wire[t][k].msg)
       ELSE ListWithinCaps(wire[t][k].msg)

\* a carousel of more than 10 cards, the first with a title of 25 and a
\* description of 73 characters, went out as a list of 10 rows
C12_Witness ==
  \E t \in Tasks : \E k \in 1..Len(wire[t]) :
    /\ variant = "part"
    /\ wire[t][k].phase = "trace"
    /\ traces[t][wire[t][k].trace].type = "carousel"
    /\ Len(traces[t][wire[t][k].trace].cards) > 10
    /\ Len(traces[t][wire[t][k].trace].cards[1].title) > 24
    /\ Len(traces[t][wire[t][k].trace].cards[1].description) > 72
    /\ wire[t][k].msg.type = "interactive"
    /\ RowCount(wire[t][k].msg.sections) = 10
    /\ wire[t][k].status = "ok"

RECURSIVE Concat(_)
Concat(ss) == IF ss = <<>> THEN <<>> ELSE Head(ss) \o Concat(Tail(ss))

\* src/index.js has dispatched an answer that is one text trace over the
\* limit, and every request was answered ok
LongTextDelivered(t) ==
  /\ variant = "index"
  /\ DispatchReturned(t)
  /\ Len(traces[t]) = 1
  /\ traces[t][1].type = "text"
  /\ Len(traces[t][1].message) > 4000
  /\ \A k \in 1..Len(wire[t]) : wire[t][k].status = "ok"

\* C13: a text of length L > 4000 goes out as exactly ceil(L / 4000) text
\* messages of at most 4000 characters each, whose bodies concatenated in
\* the order sent are the text.
C13_ChunksRoundTrip ==
  \A t \in Tasks :
    LongTextDelivered(t)
    => LET bodies == TextBodies(wire[t])
           L == Len(traces[t][1].message)
       IN  /\ Len(bodies) = (L + 3999) \div 4000
           /\ \A k \in 1..Len(bodies) : Len(bodies[k]) <= 4000
           /\ Concat(bodies) = traces[t][1].message

\* C14: no text message put on the wire has a body of more than 4096
\* characters.
C14_TextWithinLimit ==
  \A t \in Tasks : \A k \in 1..Len(wire[t]) :
    wire[t][k].msg.type = "text" => Len(wire[t][k].msg.body) <= 4096

EndsWith(s, tail) ==
  /\ Len(tail) <= Len(s)
  /\ SubSeq(s, Len(s) - Len(tail) + 1, Len(s)) = tail

\* C15: once the dispatcher has returned, every failed image request is
\* followed by a text request for the same trace, carrying the caption when
\* the image had one and some placeholder text when it had none.
C15_ImageFallback ==
  \A t \in Tasks : \A k \in 1..Len(wire[t]) :
    (DispatchReturned(t) /\ wire[t][k].msg.type = "image" /\ wire[t][k].status = "failed")
    => /\ k < Len(wire[t])
       /\ wire[t][k + 1].msg.type = "text"
       /\ wire[t][k + 1].trace = wire[t][k].trace
       /\ wire[t][k + 1].msg.body # <<>>
       /\ EndsWith(wire[t][k + 1].msg.body, wire[t][k].msg.caption)

\* the titles of every option of an interactive message, in order
RECURSIVE SectionTitles(_)
SectionTitles(sections) ==
  IF sections = <<>> THEN <<>>
  ELSE [i \in 1..Len(Head(sections).rows) |-> Head(sections).rows[i].title]
         \o SectionTitles(Tail(sections))

OptionTitles(m) ==
  IF m.itype = "button" THEN [i \in 1..Len(m.buttons) |-> m.buttons[i].title]
  ELSE SectionTitles(m.sections)

\* "1. first", "2. second", ...: one line per option
RECURSIVE OptionLines(_, _)
OptionLines(titles, k) ==
  IF k > Len(titles) THEN <<>>
  ELSE NumText(k) \o <<".", " ">> \o titles[k] \o <<"\n">> \o OptionLines(titles, k + 1)

\* C16: once the dispatcher has returned, a failed interactive request is
\* followed by exactly one text request for the same trace, whose body is
\* the prompt and then every option as a numbered line.
C16_InteractiveFallback ==
  \A t \in Tasks : \A k \in 1..Len(wire[t]) :
    (/\ DispatchReturned(t)
     /\ wire[t][k].phase = "trace"
     /\ wire[t][k].msg.type = "interactive"
     /\ wire[t][k].status = "failed")
    => LET m == wire[t][k].msg
           after == SelectSeq(SubSeq(wire[t], k + 1, Len(wire[t])),
                              LAMBDA w : w.phase = "trace" /\ w.trace = wire[t][k].trace)
       IN  /\ Len(after) = 1
           /\ after[1].msg.type = "text"
           /\ after[1].msg.body = m.body \o <<"\n", "\n">> \o OptionLines(OptionTitles(m), 1)

\* processMessage has returned normally from an exchange whose last backend
\* call was answered with an empty array
EmptyExchange(t) ==
  /\ pc[t] = "done"
  /\ Len(calls[t]) > 0
  /\ calls[t][Len(calls[t])].status = "array"
  /\ reply[t] = <<>>

\* C17: after a successful exchange with an empty trace sequence exactly
\* one text has been sent to the user.
C17_EmptyAnswerText ==
  \A t \in Tasks :
    EmptyExchange(t)
    => /\ Len(TextBodies(wire[t])) = 1
       /\ TextBodies(wire[t])[1] # <<>>

\* a pipeline step of the task has started
Started(t) ==
  \/ pc[t] # "none"
  \/ calls[t] # <<>>
  \/ wire[t] # <<>>
  \/ delays[t] # <<>>

\* C18: no task of a delivery has started, and no request or timer of a
\* task exists, unless the delivery has been acknowledged with 200; and the
\* acknowledgment stays 200 whatever the tasks do afterwards.
C18_AckBeforePipeline ==
  /\ ack \in {0, 200}
  /\ \A t \in Tasks : Started(t) => ack = 200

\* of two messages of one delivery, one ended in the catch of processMessage
\* with its error text failing, the other after a backend failure: the
\* acknowledgment is 200
C18_Witness ==
  \E t, u \in Tasks :
    /\ t # u
    /\ pc[t] = "rejected"
    /\ pc[u] \in {"done", "handled"}
    /\ \E k \in 1..Len(calls[u]) : calls[u][k].status = "error"
    /\ ack = 200

\* the messages a delivery contains: those of the changes with field
\* "messages", in every entry
Contained(d) == {id \in MsgIds(d) : d[id[1]].changes[id[2]].field = "messages"}

\* C19: once the handler has started the tasks of a delivery, every message
\* the delivery contains, in whichever entry, has a task.
C19_TaskPerMessage ==
  (\E t \in Tasks : pc[t] # "none")
  => \A u \in Contained(delivery) : pc[u] # "none"

\* something went wrong in the task: a backend call or a request failed, or
\* processMessage is in or past its catch block
Failed(t) ==
  \/ pc[t] \in {"error", "handled", "rejected"}
  \/ \E k \in 1..Len(calls[t]) : calls[t][k].status \in {"error", "null", "object"}
  \/ \E k \in 1..Len(wire[t]) : wire[t][k].status = "failed"

\* the task's own next step
TaskStep(t) ==
  \/ processMessage(t)
  \/ CallBackend(t)
  \/ BackendResponds(t)
  \/ NextTrace(t)
  \/ StartSend(t)
  \/ CompleteSend(t)
  \/ DelayElapse(t)

\* what a task has done and where it stands
History(t) == <<pc[t], utter[t], attempt[t], traces[t], idx[t], plan[t], wire[t], calls[t], delays[t]>>

\* while a task has failed, every other started task has either returned
\* or can take its next step, and none was ended from outside
OthersRunOn ==
  \A t \in Tasks :
    /\ pc[t] # "killed"
    /\ Failed(t) =>
         \A u \in Tasks \ {t} :
           pc[u] # "none" => (pc[u] \in {"skipped", "done", "handled", "rejected"}
                              \/ ENABLED TaskStep(u))

\* a step in which one task calls the backend, sends, fails or moves leaves
\* every other task as it was
OneTaskPerStep ==
  \A t \in Tasks :
    (History(t)' # History(t) /\ pc[t] # "none")
    => \A u \in Tasks \ {t} : History(u)' = History(u)

\* C20: under every interleaving of the tasks of one delivery, a failure in
\* one task leaves the backend calls, the sends and the progress of every
\* other task untouched, and every other task can still run to its end.
C20_CrossMessageIsolation == [](OthersRunOn) /\ [][OneTaskPerStep]_vars

\* of two concurrent tasks one was rejected, after a failed backend call
\* and a failed error text, and the other made its call and its send, both
\* answered ok, and returned
C20_Witness ==
  \E t, u \in Tasks :
    /\ t # u
    /\ pc[t] = "rejected"
    /\ \E k \in 1..Len(calls[t]) : calls[t][k].status = "error"
    /\ pc[u] = "done"
    /\ calls[u] # <<>> /\ \A k \in 1..Len(calls[u]) : calls[u][k].status = "array"
    /\ \E k \in 1..Len(wire[u]) : wire[u][k].msg.type = "text"
    /\ \A k \in 1..Len(wire[u]) : wire[u][k].status = "ok"

\* the dispatcher was called with the answer of backend call k: src/index.js
\* calls it with whatever a successful call returned, part_000 with arrays
DispatcherCalled(t, k) ==
  IF variant = "index" THEN calls[t][k].status \in {"null", "object", "array"}
  ELSE calls[t][k].status = "array"

\* C21: the dispatcher returns normally to its caller: once it has been
\* called with the answer of a backend call, the task is neither in its
\* caller's catch (the retry catch with its backoff, further call or
\* fallback greeting; the catch of processMessage) nor past it.
C21_DispatcherNeverRaises ==
  \A t \in Tasks : \A k \in 1..Len(calls[t]) :
    DispatcherCalled(t, k)
    => /\ k = Len(calls[t])
       /\ pc[t] \notin {"backoff", "fallback", "error", "handled", "rejected"}

\* the indicator request of the task has been answered, ok or failed
IndicatorAnswered(t) ==
  /\ wire[t] # <<>>
  /\ wire[t][1].msg.type = "reaction"
  /\ wire[t][1].status # "pending"

\* C22: whatever the outcome of the indicator request, the task goes on to
\* the backend call with nothing changed but the request's status, and the
\* catch of processMessage, with its error text, is only ever entered after
\* a backend call.
C22_IndicatorBestEffort ==
  \A t \in Tasks :
    /\ IndicatorAnswered(t)
        => /\ pc[t] # "typing"
           /\ calls[t] = <<>> => (pc[t] = "call" /\ plan[t] = <<>> /\ Len(wire[t]) = 1)
    /\ \A k \in 1..Len(wire[t]) : wire[t][k].phase = "error" => wire[t][k].call >= 1
    /\ pc[t] \in {"error", "handled", "rejected"} => calls[t] # <<>>

\* the indicator request failed, and the task went on to call the backend
\* and delivered the answer's text
C22_Witness ==
  \E t \in Tasks :
    /\ IndicatorAnswered(t)
    /\ wire[t][1].status = "failed"
    /\ pc[t] = "done"
    /\ Len(calls[t]) = 1 /\ calls[t][1].status = "array"
    /\ Len(wire[t]) = 2
    /\ wire[t][2].msg = [type |-> "text", body |-> Hello]
    /\ wire[t][2].status = "ok"

\* a pacing delay of the dispatcher elapsed between stamps a and b
PacedBetween(t, a, b) ==
  \E d \in 1..Len(delays[t]) :
    /\ delays[t][d].phase = "trace"
    /\ delays[t][d].ms = (IF variant = "index" THEN 300 ELSE 1000)
    /\ a < delays[t][d].at
    /\ delays[t][d].at < b

\* C23: between two requests made for different traces of one answer a
\* pacing delay has elapsed, whether or not the earlier request succeeded;
\* and when the dispatcher has returned, no delay followed the last request
\* it made.
C23_PacingBetweenSends ==
  \A t \in Tasks :
    /\ \A k, l \in TraceSends(t) :
         (k < l /\ wire[t][k].trace # wire[t][l].trace)
         => PacedBetween(t, wire[t][k].at, wire[t][l].at)
    /\ (DispatchReturned(t) /\ TraceSends(t) # {}) =>
         \A d \in 1..Len(delays[t]) :
           delays[t][d].phase = "trace" => \E l \in TraceSends(t) : delays[t][d].at < wire[t][l].at

BackoffWaits(t) == SelectSeq(delays[t], LAMBDA d : d.phase = "backoff")

\* C24: in part_000 the k-th backoff wait lasts k x 2000 ms and lies between
\* backend calls k and k + 1; a backend call is started only when every wait
\* before it has elapsed and the call before it has been answered; there are
\* at most two waits, and none between the third call and the fallback
\* greeting.
C24_BackoffSchedule ==
  \A t \in Tasks :
    LET waits == BackoffWaits(t)
    IN  /\ Len(waits) <= 2
        /\ Len(waits) \in {Len(calls[t]) - 1, Len(calls[t])}
        /\ \A k \in 1..Len(waits) :
             /\ waits[k].ms = k * 2000
             /\ calls[t][k].at < waits[k].at
             /\ calls[t][k].status \notin {"pending"}
             /\ k < Len(calls[t]) => waits[k].at < calls[t][k + 1].at
        /\ pc[t] = "backoff" => calls[t][Len(calls[t])].status # "pending"
        /\ \A k \in 1..Len(wire[t]) :
             wire[t][k].phase = "fallback"
             => /\ wire[t][k].call = 3
                /\ Len(waits) = 2
                /\ waits[2].at < calls[t][3].at

\* three failed calls, waits of 2000 and 4000 ms between them, then the
\* fallback greeting
C24_Witness ==
  \E t \in Tasks :
    /\ variant = "part"
    /\ Len(calls[t]) = 3
    /\ \A k \in 1..3 : calls[t][k].status = "error"
    /\ [k \in 1..Len(BackoffWaits(t)) |-> BackoffWaits(t)[k].ms] = <<2000, 4000>>
    /\ Len(wire[t]) = 1
    /\ wire[t][1].phase = "fallback"
    /\ pc[t] = "done"

\* C25: when src/index.js has dispatched a text of length L > 4000, a
\* request was made for every chunk, at least ceil(L / 4000) text requests,
\* whichever of them failed.
C25_EveryChunkAttempted ==
  \A t \in Tasks :
    (/\ variant = "index"
     /\ DispatchReturned(t)
     /\ Len(traces[t]) = 1
     /\ traces[t][1].type = "text"
     /\ Len(traces[t][1].message) > 4000)
    => Cardinality({k \in TraceSends(t) : wire[t][k].msg.type = "text"})
         >= (Len(traces[t][1].message) + 3999) \div 4000

\* C27: once a backend call of a task has returned an array it is the
\* task's last call, the fallback greeting is never sent for the task, and
\* no trace position is dispatched under two different calls.
C27_OneExchangePerEvent ==
  \A t \in Tasks :
    /\ \A k \in 1..Len(calls[t]) :
         calls[t][k].status = "array"
         => /\ k = Len(calls[t])
            /\ \A w \in 1..Len(wire[t]) : wire[t][w].phase # "fallback"
    /\ \A a, b \in 1..Len(wire[t]) :
         (wire[t][a].phase = "trace" /\ wire[t][b].phase = "trace"
            /\ wire[t][a].trace = wire[t][b].trace)
         => wire[t][a].call = wire[t][b].call

\* the requests one trace can lead to: its chunks, which the line breaks
\* of the text add to, or a message and its fallback
TraceSendBound(trace) ==
  IF trace.type \in {"text", "speak"}
  THEN (Len(trace.message) + 3999) \div 4000
         + Cardinality({k \in 1..Len(trace.message) : trace.message[k] = "\n"})
  ELSE 2

RECURSIVE AnswerSendBound(_)
AnswerSendBound(ts) ==
  IF ts = <<>> THEN 0 ELSE TraceSendBound(Head(ts)) + AnswerSendBound(Tail(ts))

\* at most 3 backend calls; the indicator, the answer's requests once per
\* call, and one text of the fallback and error paths each
WorkBounded ==
  \A t \in Tasks :
    /\ Len(calls[t]) <= 3
    /\ Len(wire[t]) <= 3 + 3 * AnswerSendBound(reply[t])

AllSettled == ack = 200 /\ \A t \in Tasks : pc[t] \in {"skipped", "done", "handled", "rejected"}

\* C26: when every request is answered or fails and every timer fires, the
\* task of every inbound message comes to its end, after at most 3 backend
\* calls and a number of requests bounded by the answer's traces and chunks.
C26_TaskTerminates == [](WorkBounded) /\ <>(AllSettled)

\* three backend calls that each returned an array with a null element,
\* then the fallback greeting: the longest path has come to its end
C26_Witness ==
  \E t \in Tasks :
    /\ pc[t] = "done"
    /\ Len(calls[t]) = 3
    /\ \A k \in 1..3 : calls[t][k].status = "array"
    /\ \E w \in 1..Len(wire[t]) : wire[t][w].phase = "fallback" /\ wire[t][w].status = "ok"

====
